---- MODULE Spec2Model ----
(***************************************************************************)
(* gen_art_framework: the YAML parameter-space schema (schema.py) and the  *)
(* sampling pass that consumes it.                                         *)
(*                                                                         *)
(* Four specifications share the variables:                                *)
(*   SpecValidate  one list item through _validate_parameter               *)
(*   Spec          one loaded document through parse_parameter_space       *)
(*   SpecExtract   one docstring through _extract_yaml_from_docstring      *)
(*   SpecSample    one sampling pass over a parameter space                *)
(***************************************************************************)
EXTENDS Integers, Sequences, FiniteSets, TLC

VARIABLES
    pc,          \* which operation has run
    param_dict,  \* the list item handed to _validate_parameter
    validated,   \* what _validate_parameter returned or raised
    source,      \* what extraction and yaml.safe_load gave parse_parameter_space
    parsed,      \* what parse_parameter_space returned or raised
    docstring,   \* the text handed to _extract_yaml_from_docstring (its lines)
    extracted,   \* what _extract_yaml_from_docstring returned or raised
    space,       \* the ParameterSpace being sampled
    rng,         \* the state of the random source
    idx,         \* number of definitions the sampling pass has visited
    samples,     \* the value drawn for each visited definition, in visit order
    result       \* the name -> value mapping the pass is building

vars == <<pc, param_dict, validated, source, parsed, docstring, extracted,
          space, rng, idx, samples, result>>

Idle == [t |-> "idle"]

(***************************************************************************)
(* Python values as yaml.safe_load produces them.  A str is kept as the    *)
(* sequence of its words, so that the substring test `"name" in s` is      *)
(* membership of the word; no word used below contains another.            *)
(***************************************************************************)
Null == [t |-> "NoneType"]
IntVal(n) == [t |-> "int", n |-> n]
Str(words) == [t |-> "str", s |-> words]
Word(w) == Str(<<w>>)
List(elems) == [t |-> "list", l |-> elems]
Dict(f) == [t |-> "dict", d |-> f]

\* `key in c` for a str key: dict key, str substring, list element.
Iterable(c) == c.t \in {"dict", "str", "list"}
Contains(key, c) ==
    CASE c.t = "dict" -> key \in DOMAIN c.d
      [] c.t = "str" -> \E i \in DOMAIN c.s : c.s[i] = key
      [] c.t = "list" -> \E i \in DOMAIN c.l : c.l[i] = Word(key)
      [] OTHER -> FALSE

\* c["name"]: only a dict can be indexed by a str.
Subscriptable(c) == c.t = "dict"

\* hash(v), needed by `v in some_dict`: lists and dicts have none.
Hashable(v) == v.t \notin {"list", "dict"}

(***************************************************************************)
(* Outcomes: a returned value, or a raised exception with the parts of its *)
(* message the code formats in.                                            *)
(***************************************************************************)
Return(v) == [ok |-> TRUE, value |-> v]
Raise(exc, msg, who, detail) ==
    [ok |-> FALSE, exc |-> exc, msg |-> msg, who |-> who, detail |-> detail]
Nobody == [t |-> "nobody"]
Nothing == [t |-> "nothing"]

ParameterDefinition(name, distribution, args) ==
    [name |-> name, distribution |-> distribution, args |-> args]

(***************************************************************************)
(* The per-kind validators.                                                *)
(***************************************************************************)
Requires(kind, field, name) == Raise("ValueError", "requires_field", name, <<kind, field>>)

ValidateUniformNoHigh(args, name) ==
    IF "low" \notin DOMAIN args THEN Requires("uniform", "low", name)
    ELSE Return(Nothing)

_validate_uniform(args, name) ==
    IF "low" \notin DOMAIN args THEN Requires("uniform", "low", name)
    ELSE IF "high" \notin DOMAIN args THEN Requires("uniform", "high", name)
    ELSE Return(Nothing)

_validate_normal(args, name) ==
    IF "mean" \notin DOMAIN args THEN Requires("normal", "mean", name)
    ELSE IF "std" \notin DOMAIN args THEN Requires("normal", "std", name)
    ELSE Return(Nothing)

_validate_choice(args, name) ==
    IF "values" \notin DOMAIN args THEN Requires("choice", "values", name)
    ELSE IF args["values"].t # "list"
         THEN Raise("ValueError", "values_must_be_list", name, <<"choice", "values">>)
    ELSE Return(Nothing)

_validate_constant(args, name) ==
    IF "value" \notin DOMAIN args THEN Requires("constant", "value", name)
    ELSE Return(Nothing)

\* The keys of _VALIDATORS, in the order ', '.join(_VALIDATORS.keys()) lists them.
ValidatorKeys == <<"uniform", "normal", "choice", "constant">>

InValidators(distribution) ==
    /\ distribution.t = "str"
    /\ Len(distribution.s) = 1
    /\ \E i \in DOMAIN ValidatorKeys : ValidatorKeys[i] = distribution.s[1]

_VALIDATORS(kind, args, name) ==
    CASE kind = "uniform" -> _validate_uniform(args, name)
      [] kind = "normal" -> _validate_normal(args, name)
      [] kind = "choice" -> _validate_choice(args, name)
      [] kind = "constant" -> _validate_constant(args, name)

ExtractArgsKeepName(d) == [k \in (DOMAIN d) \ {"distribution"} |-> d[k]]

\* {k: v for k, v in param_dict.items() if k not in ("name", "distribution")}
ExtractArgs(d) == [k \in (DOMAIN d) \ {"name", "distribution"} |-> d[k]]

\* _validate_parameter with the two presence checks in the other order.
ValidateParameterDistributionFirst(p) ==
    IF ~Iterable(p) THEN Raise("TypeError", "not_iterable", Nobody, p.t)
    ELSE IF ~Contains("distribution", p)
         THEN Raise("ValueError", "missing_distribution", Nobody, Nothing)
    ELSE IF ~Contains("name", p)
         THEN Raise("ValueError", "missing_name", Nobody, Nothing)
    ELSE IF ~Subscriptable(p) THEN Raise("TypeError", "bad_index", Nobody, p.t)
    ELSE IF ~Hashable(p.d["distribution"])
         THEN Raise("TypeError", "unhashable", Nobody, p.d["distribution"].t)
    ELSE IF ~InValidators(p.d["distribution"])
         THEN Raise("ValueError", "unknown_distribution", p.d["name"],
                    <<p.d["distribution"], ValidatorKeys>>)
    ELSE LET v == _VALIDATORS(p.d["distribution"].s[1], ExtractArgs(p.d), p.d["name"])
         IN  IF v.ok
             THEN Return(ParameterDefinition(p.d["name"], p.d["distribution"],
                                             ExtractArgs(p.d)))
             ELSE v

(***************************************************************************)
(* _validate_parameter.  The code makes no isinstance check on the item:   *)
(* `in` on a non-container, and ["name"] on a str or list, raise TypeError,*)
(* as does hashing an unhashable distribution for `not in _VALIDATORS`.    *)
(***************************************************************************)
_validate_parameter(p) ==
    IF ~Iterable(p) THEN Raise("TypeError", "not_iterable", Nobody, p.t)
    ELSE IF ~Contains("name", p)
         THEN Raise("ValueError", "missing_name", Nobody, Nothing)
    ELSE IF ~Contains("distribution", p)
         THEN IF Subscriptable(p)
              THEN Raise("ValueError", "missing_distribution", p.d["name"], Nothing)
              ELSE Raise("TypeError", "bad_index", Nobody, p.t)
    ELSE IF ~Subscriptable(p) THEN Raise("TypeError", "bad_index", Nobody, p.t)
    ELSE LET name == p.d["name"]
             distribution == p.d["distribution"]
             args == ExtractArgs(p.d)
         IN  IF ~Hashable(distribution)
             THEN Raise("TypeError", "unhashable", Nobody, distribution.t)
             ELSE IF ~InValidators(distribution)
             THEN Raise("ValueError", "unknown_distribution", name,
                        <<distribution, ValidatorKeys>>)
             ELSE LET v == _VALIDATORS(distribution.s[1], args, name)
                  IN  IF v.ok
                      THEN Return(ParameterDefinition(name, distribution, args))
                      ELSE v

(***************************************************************************)
(* List items.  A mapping item is built from an optional name, an optional *)
(* distribution and a mapping of further keys.                             *)
(***************************************************************************)
Absent == [t |-> "absent"]

Item(name, distribution, args) ==
    Dict([k \in (DOMAIN args) \cup (IF name = Absent THEN {} ELSE {"name"})
                              \cup (IF distribution = Absent THEN {} ELSE {"distribution"})
            |-> IF k = "name" THEN name
                ELSE IF k = "distribution" THEN distribution
                ELSE args[k]])

ArgKeys == {"low", "high", "mean", "std", "values", "value", "extra"}
ValuesVals == {List(<<Word("a"), Word("b")>>), Word("ab")}
ArgDicts ==
    UNION {{[k \in K |-> IF k = "values" THEN vv ELSE IntVal(1)] : vv \in ValuesVals}
           : K \in SUBSET ArgKeys}

NameVals == {Word("x"), Word("y"), Str(<<>>), Null, List(<<Word("x")>>)}
DistVals == {Word("uniform"), Word("normal"), Word("choice"), Word("constant"),
             Word("norm"), Word("not_a_real_distribution"), Null,
             List(<<Word("uniform")>>)}

NonMappingItems ==
    {IntVal(5), Null, Word("foo"), Word("name"), Str(<<"name", "distribution">>),
     List(<<>>), List(<<Word("name")>>), List(<<Word("name"), Word("distribution")>>)}

MappingItems ==
    {Item(n, dd, a) : n \in NameVals \cup {Absent}, dd \in DistVals \cup {Absent},
                      a \in ArgDicts}

Items == MappingItems \cup NonMappingItems

(***************************************************************************)
(* SpecValidate: one item through _validate_parameter.                     *)
(***************************************************************************)
InitValidate ==
    /\ pc = "item"
    /\ param_dict \in Items
    /\ validated = Idle
    /\ source = Idle /\ parsed = Idle
    /\ docstring = Idle /\ extracted = Idle
    /\ space = Idle /\ rng = 0 /\ idx = 0 /\ samples = <<>> /\ result = <<>>

ValidateParameter ==
    /\ pc = "item"
    /\ validated' = _validate_parameter(param_dict)
    /\ pc' = "validated"
    /\ UNCHANGED <<param_dict, source, parsed, docstring, extracted,
                   space, rng, idx, samples, result>>

NextValidate == ValidateParameter

SpecValidate == InitValidate /\ [][NextValidate]_vars

(***************************************************************************)
(* Text.  A docstring is the sequence of its lines (docstring.split("\n")),*)
(* a line the sequence of its tokens; the empty docstring is one empty     *)
(* line.  The tokens are the pieces of text the extractor can tell apart:  *)
(* a triple backtick, the tags, white space, `parameters:`, the list       *)
(* marker and other words.                                                 *)
(***************************************************************************)
\* The triple backtick.
FENCE == "<fence>"
NL == "\n"
SP == " "
TAB == "\t"
PARAMS == "parameters:"
DASH == "-"
Whitespace == {SP, TAB, NL}

RECURSIVE Join(_)
\* "\n".join(lines)
Join(lines) ==
    IF lines = <<>> THEN <<>>
    ELSE IF Len(lines) = 1 THEN lines[1]
    ELSE lines[1] \o <<NL>> \o Join(Tail(lines))

RECURSIVE LStrip(_)
LStrip(t) == IF t # <<>> /\ Head(t) \in Whitespace THEN LStrip(Tail(t)) ELSE t
RECURSIVE RStrip(_)
RStrip(t) ==
    IF t # <<>> /\ t[Len(t)] \in Whitespace THEN RStrip(SubSeq(t, 1, Len(t) - 1)) ELSE t
\* str.strip()
Strip(t) == RStrip(LStrip(t))

\* `tok in text`: the tokens are chosen so that none occurs inside another.
HasToken(t, tok) == \E i \in DOMAIN t : t[i] = tok

Min(S) == CHOOSE x \in S : \A y \in S : x <= y
Max(S) == CHOOSE x \in S : \A y \in S : x >= y

(***************************************************************************)
(* re.search(code_block_pattern, docstring, re.DOTALL), the pattern being  *)
(* FENCE (?:ya?ml)? \s* \n (.*?) FENCE.                                    *)
(* At a fence at position i the optional tag is taken when it is there;    *)
(* \s*\n then needs a run of white space ending in a newline, and the lazy *)
(* group ends at the first fence after it.  AfterTag is the position \s*   *)
(* starts at, GroupStart the first position of group 1 (\s* is greedy).    *)
(***************************************************************************)
YamlTags == {"yaml", "yml"}

AfterTag(t, i) ==
    IF i + 1 <= Len(t) /\ t[i + 1] \in YamlTags THEN i + 2 ELSE i + 1

NewlineEnds(t, k) ==
    {n \in k..Len(t) : t[n] = NL /\ \A m \in k..n : t[m] \in Whitespace}

FencesFrom(t, k) == {j \in k..Len(t) : t[j] = FENCE}

MatchesAt(t, i) ==
    /\ t[i] = FENCE
    /\ NewlineEnds(t, AfterTag(t, i)) # {}
    /\ FencesFrom(t, Max(NewlineEnds(t, AfterTag(t, i))) + 1) # {}

GroupStart(t, i) == Max(NewlineEnds(t, AfterTag(t, i))) + 1
GroupEnd(t, i) == Min(FencesFrom(t, GroupStart(t, i))) - 1

\* The leftmost match, or 0.
SearchRequiresTag(t) ==
    LET hits == {i \in DOMAIN t : MatchesAt(t, i) /\ AfterTag(t, i) = i + 2}
    IN  IF hits = {} THEN 0 ELSE Min(hits)

Search(t) ==
    LET hits == {i \in DOMAIN t : MatchesAt(t, i)}
    IN  IF hits = {} THEN 0 ELSE Min(hits)

Group1(t, i) == SubSeq(t, GroupStart(t, i), GroupEnd(t, i))

(***************************************************************************)
(* The raw-text loop of _extract_yaml_from_docstring: the value of         *)
(* yaml_lines when the for loop ends.                                      *)
(***************************************************************************)
StartsWith(line, tok) == line # <<>> /\ line[1] = tok
NonBlank(line) == Strip(line) # <<>>

RECURSIVE ScanStoppingAtDash(_, _, _, _)
\* The loop without the exemption of lines that start with a dash.
ScanStoppingAtDash(lines, i, in_yaml, yaml_lines) ==
    IF i > Len(lines) THEN yaml_lines
    ELSE LET line == lines[i] IN
         IF HasToken(line, PARAMS) /\ ~in_yaml
         THEN ScanStoppingAtDash(lines, i + 1, TRUE, Append(yaml_lines, line))
         ELSE IF in_yaml
         THEN IF /\ NonBlank(line) /\ ~StartsWith(line, SP) /\ ~StartsWith(line, TAB)
                 /\ yaml_lines # <<>>
              THEN yaml_lines
              ELSE ScanStoppingAtDash(lines, i + 1, in_yaml, Append(yaml_lines, line))
         ELSE ScanStoppingAtDash(lines, i + 1, in_yaml, yaml_lines)

RECURSIVE Scan(_, _, _, _)
Scan(lines, i, in_yaml, yaml_lines) ==
    IF i > Len(lines) THEN yaml_lines
    ELSE LET line == lines[i] IN
         IF HasToken(line, PARAMS) /\ ~in_yaml
         THEN Scan(lines, i + 1, TRUE, Append(yaml_lines, line))
         ELSE IF in_yaml
         THEN IF /\ NonBlank(line) /\ ~StartsWith(line, SP) /\ ~StartsWith(line, TAB)
                 /\ yaml_lines # <<>> /\ ~StartsWith(line, DASH)
              THEN yaml_lines
              ELSE Scan(lines, i + 1, in_yaml, Append(yaml_lines, line))
         ELSE Scan(lines, i + 1, in_yaml, yaml_lines)

_extract_yaml_from_docstring(lines) ==
    LET text == Join(lines) IN
    IF text = <<>> THEN Raise("ValueError", "empty", Nobody, Nothing)
    ELSE IF Search(text) # 0 THEN Return(Strip(Group1(text, Search(text))))
    ELSE IF HasToken(text, PARAMS) /\ Scan(lines, 1, FALSE, <<>>) # <<>>
         THEN Return(Strip(Join(Scan(lines, 1, FALSE, <<>>))))
    ELSE Raise("ValueError", "no_yaml", Nobody, Nothing)

(***************************************************************************)
(* SpecExtract: one docstring through _extract_yaml_from_docstring.        *)
(***************************************************************************)
MaxLines == 4

LineShapes ==
    {<<>>, <<FENCE>>, <<FENCE, "yaml">>, <<FENCE, "yml">>, <<FENCE, "py">>,
     <<"x", FENCE>>, <<PARAMS>>, <<"x", PARAMS>>, <<SP, "x">>, <<TAB, "x">>,
     <<"x">>, <<DASH, "x">>}

Docstrings == UNION {[1..n -> LineShapes] : n \in 1..MaxLines}

InitExtract ==
    /\ pc = "text"
    /\ docstring \in Docstrings
    /\ extracted = Idle
    /\ param_dict = Idle /\ validated = Idle
    /\ source = Idle /\ parsed = Idle
    /\ space = Idle /\ rng = 0 /\ idx = 0 /\ samples = <<>> /\ result = <<>>

ExtractYaml ==
    /\ pc = "text"
    /\ extracted' = _extract_yaml_from_docstring(docstring)
    /\ pc' = "extracted"
    /\ UNCHANGED <<docstring, param_dict, validated, source, parsed,
                   space, rng, idx, samples, result>>

NextExtract == ExtractYaml

SpecExtract == InitExtract /\ [][NextExtract]_vars

(***************************************************************************)
(* ParameterSpace and parse_parameter_space.  yaml.safe_load is outside    *)
(* the repository: `load` is what it gave, a value or a YAMLError.         *)
(***************************************************************************)
ParameterSpace(parameters) == [parameters |-> parameters]

\* ParameterSpace.__iter__ and __len__
Iterate(sp) == sp.parameters
Length(sp) == Len(sp.parameters)

RECURSIVE ValidateAllSkipping(_, _, _)
\* A loop that leaves out the items that do not validate.
ValidateAllSkipping(items, i, acc) ==
    IF i > Len(items) THEN Return(acc)
    ELSE LET r == _validate_parameter(items[i])
         IN  ValidateAllSkipping(items, i + 1, IF r.ok THEN Append(acc, r.value) ELSE acc)

RECURSIVE ValidateAll(_, _, _)
\* [_validate_parameter(p) for p in data["parameters"]]
ValidateAll(items, i, acc) ==
    IF i > Len(items) THEN Return(acc)
    ELSE LET r == _validate_parameter(items[i])
         IN  IF r.ok THEN ValidateAll(items, i + 1, Append(acc, r.value)) ELSE r

parse_parameter_space(text, load) ==
    LET yaml_content == _extract_yaml_from_docstring(text) IN
    IF ~yaml_content.ok THEN yaml_content
    ELSE IF ~load.ok THEN Raise("ValueError", "malformed_yaml", Nobody, load.msg)
    ELSE LET data == load.value IN
         IF data.t # "dict"
         THEN Raise("ValueError", "document_not_mapping", Nobody, Nothing)
         ELSE IF "parameters" \notin DOMAIN data.d
         THEN Raise("ValueError", "missing_parameters_key", Nobody, Nothing)
         ELSE IF data.d["parameters"].t # "list"
         THEN Raise("ValueError", "parameters_not_list", Nobody, Nothing)
         ELSE LET r == ValidateAll(data.d["parameters"].l, 1, <<>>)
              IN  IF r.ok THEN Return(ParameterSpace(r.value)) ELSE r

(***************************************************************************)
(* Spec: one document through parse_parameter_space.                       *)
(***************************************************************************)
MaxItems == 2

ParseNames == {Word("x"), Word("y")}
ParseDists == {Word("constant"), Word("norm"), List(<<Word("uniform")>>)}
ParseArgs ==
    {<<>>, [k \in {"value"} |-> IntVal(1)], [k \in {"value", "extra"} |-> IntVal(1)]}
ParseItems ==
    {Item(n, dd, a) : n \in ParseNames \cup {Absent}, dd \in ParseDists \cup {Absent},
                      a \in ParseArgs}
    \cup {IntVal(5), Word("foo"), Word("name"),
          List(<<Word("name"), Word("distribution")>>)}

ItemLists == UNION {[1..n -> ParseItems] : n \in 0..MaxItems}

Documents ==
    {Null, Word("x"), List(<<>>),
     Dict(<<>>), Dict([k \in {"other"} |-> IntVal(1)]),
     Dict([k \in {"parameters"} |-> Null]),
     Dict([k \in {"parameters"} |-> Word("x")]),
     Dict([k \in {"parameters"} |-> Dict(<<>>)])}
    \cup {Dict([k \in {"parameters"} |-> List(items)]) : items \in ItemLists}

LoadOutcomes ==
    {Raise("YAMLError", "scanner", Nobody, Nothing)} \cup {Return(d) : d \in Documents}

ParseDocstrings ==
    {<<<<>>>>, <<<<"x">>>>, <<<<FENCE, "yaml">>, <<PARAMS>>, <<FENCE>>>>}

Init ==
    /\ pc = "docstring"
    /\ docstring \in ParseDocstrings
    /\ IF _extract_yaml_from_docstring(docstring).ok
       THEN source \in LoadOutcomes
       ELSE source = Idle
    /\ parsed = Idle
    /\ extracted = Idle
    /\ param_dict = Idle /\ validated = Idle
    /\ space = Idle /\ rng = 0 /\ idx = 0 /\ samples = <<>> /\ result = <<>>

ParseParameterSpace ==
    /\ pc = "docstring"
    /\ parsed' = parse_parameter_space(docstring, source)
    /\ pc' = "parsed"
    /\ UNCHANGED <<docstring, source, extracted, param_dict, validated,
                   space, rng, idx, samples, result>>

Next == ParseParameterSpace

Spec == Init /\ [][Next]_vars

(***************************************************************************)
(* ParameterSpace.__getitem__: the first definition with the name.         *)
(***************************************************************************)
GetItemLast(sp, key) ==
    LET hits == {i \in DOMAIN sp.parameters : sp.parameters[i].name = key}
    IN  IF hits = {} THEN Raise("KeyError", "key", key, Nothing)
        ELSE Return(sp.parameters[Max(hits)])

\* dict.get in place of the subscript: a missing key gives None.
GetItemOrNone(sp, key, i) ==
    LET hits == {j \in DOMAIN sp.parameters : j >= i /\ sp.parameters[j].name = key}
    IN  IF hits = {} THEN Return(Null) ELSE Return(sp.parameters[Min(hits)])

RECURSIVE GetItemFrom(_, _, _)
GetItemFrom(sp, key, i) ==
    IF i > Len(sp.parameters) THEN Raise("KeyError", "key", key, Nothing)
    ELSE IF sp.parameters[i].name = key THEN Return(sp.parameters[i])
    ELSE GetItemFrom(sp, key, i + 1)

__getitem__(sp, key) == GetItemFrom(sp, key, 1)

(***************************************************************************)
(* SpecSpace: a client holding a ParameterSpace calls __getitem__, __len__ *)
(* and __iter__ on it, in any order and any number of times.  `result`     *)
(* holds the last call and what it gave.                                   *)
(***************************************************************************)
MaxParams == 3

SpaceNames == {Word("x"), Word("y")}
SpaceDefs ==
    {ParameterDefinition(n, Word("constant"), [k \in {"value"} |-> IntVal(v)])
       : n \in SpaceNames, v \in {1, 2}}
Spaces ==
    {ParameterSpace(ps) : ps \in UNION {[1..n -> SpaceDefs] : n \in 0..MaxParams}}
LookupKeys == SpaceNames \cup {Word("z")}

InitSpace ==
    /\ pc = "space"
    /\ space \in Spaces
    /\ result = [op |-> "none"]
    /\ rng = 0 /\ idx = 0 /\ samples = <<>>
    /\ param_dict = Idle /\ validated = Idle
    /\ source = Idle /\ parsed = Idle
    /\ docstring = Idle /\ extracted = Idle

\* space[key]
CallGetItem ==
    /\ pc = "space"
    /\ \E key \in LookupKeys :
          result' = [op |-> "getitem", key |-> key, out |-> __getitem__(space, key)]
    /\ UNCHANGED <<pc, space, rng, idx, samples, param_dict, validated,
                   source, parsed, docstring, extracted>>

\* len(space)
CallLen ==
    /\ pc = "space"
    /\ result' = [op |-> "len", out |-> Length(space)]
    /\ UNCHANGED <<pc, space, rng, idx, samples, param_dict, validated,
                   source, parsed, docstring, extracted>>

\* list(space)
CallIter ==
    /\ pc = "space"
    /\ result' = [op |-> "iter", out |-> Iterate(space)]
    /\ UNCHANGED <<pc, space, rng, idx, samples, param_dict, validated,
                   source, parsed, docstring, extracted>>

NextSpace == CallGetItem \/ CallLen \/ CallIter

SpecSpace == InitSpace /\ [][NextSpace]_vars

(***************************************************************************)
(* The sampler (gen_art_framework.distributions), as the specification     *)
(* describes it.  The random source is a state that every draw advances;   *)
(* the statistics backend knows some distribution names and draws a value  *)
(* that depends on the state of the source.                                *)
(***************************************************************************)
RngMod == 16
RngAdvance(r) == (5 * r + 3) % RngMod

BackendNames == {"uniform", "norm"}

Drawn(v, r) == [ok |-> TRUE, value |-> v, rng |-> r]

SampleConstantAdvancing(def, r) == Drawn(def.args["value"], RngAdvance(r))

SampleConstant(def, r) == Drawn(def.args["value"], r)

SampleChoice(def, r) ==
    LET values == def.args["values"].l
    IN  Drawn(values[(r % Len(values)) + 1], RngAdvance(r))

SampleBackend(def, r) ==
    IF def.distribution.s[1] \in BackendNames
    THEN Drawn([t |-> "float", n |-> r], RngAdvance(r))
    ELSE Raise("ValueError", "unknown_backend_distribution", def.name,
               <<def.distribution, "scipy.stats">>)

sample_one(def, r) ==
    IF def.distribution = Word("constant") THEN SampleConstant(def, r)
    ELSE IF def.distribution = Word("choice") THEN SampleChoice(def, r)
    ELSE SampleBackend(def, r)

\* result[name] = value
Insert(mapping, name, value) ==
    [n \in (DOMAIN mapping) \cup {name} |-> IF n = name THEN value ELSE mapping[n]]

(***************************************************************************)
(* SpecSample: one sampling pass, a definition at a time.  samples keeps,  *)
(* for each visit, the definition's position, the value drawn and the      *)
(* state of the source before and after.                                   *)
(***************************************************************************)
MaxDefs == 3
MaxSeed == 3

SampleNames == {Word("x"), Word("y")}
SampleKinds ==
    {[distribution |-> Word("constant"), args |-> [k \in {"value"} |-> IntVal(7)]],
     [distribution |-> Word("choice"),
      args |-> [k \in {"values"} |-> List(<<Word("a"), Word("b"), Word("c")>>)]],
     [distribution |-> Word("uniform"), args |-> <<>>],
     [distribution |-> Word("not_a_real_distribution"), args |-> <<>>]}
SampleDefs ==
    {ParameterDefinition(n, k.distribution, k.args) : n \in SampleNames, k \in SampleKinds}
SampleSpaces ==
    {ParameterSpace(ps) : ps \in UNION {[1..n -> SampleDefs] : n \in 0..MaxDefs}}

InitSample ==
    /\ pc = "sampling"
    /\ space \in SampleSpaces
    /\ rng \in 0..MaxSeed
    /\ idx = 0
    /\ samples = <<>>
    /\ result = <<>>
    /\ param_dict = Idle /\ validated = Idle
    /\ source = Idle /\ parsed = Idle
    /\ docstring = Idle /\ extracted = Idle

\* One turn of the loop: the next definition is sampled and stored.
SampleOne ==
    /\ pc = "sampling" /\ idx < Length(space)
    /\ LET def == Iterate(space)[idx + 1]
           r == sample_one(def, rng)
       IN  /\ r.ok
           /\ samples' = Append(samples, [at |-> idx + 1, value |-> r.value,
                                          before |-> rng, after |-> r.rng])
           /\ result' = Insert(result, def.name, r.value)
           /\ rng' = r.rng
           /\ idx' = idx + 1
    /\ UNCHANGED <<pc, space, param_dict, validated, source, parsed, docstring, extracted>>

\* The next definition's kind is unknown to the backend: the pass raises.
SampleRaises ==
    /\ pc = "sampling" /\ idx < Length(space)
    /\ ~sample_one(Iterate(space)[idx + 1], rng).ok
    /\ pc' = "raised"
    /\ UNCHANGED <<space, rng, idx, samples, result, param_dict, validated,
                   source, parsed, docstring, extracted>>

\* The loop is over: the mapping is returned.
SampleReturn ==
    /\ pc = "sampling" /\ idx = Length(space)
    /\ pc' = "sampled"
    /\ UNCHANGED <<space, rng, idx, samples, result, param_dict, validated,
                   source, parsed, docstring, extracted>>

NextSample == SampleOne \/ SampleRaises \/ SampleReturn

SpecSample == InitSample /\ [][NextSample]_vars

(***************************************************************************)
(* Claims about _validate_parameter (checked under SpecValidate).          *)
(***************************************************************************)
IsMapping(p) == p.t = "dict"
HasKey(p, k) == IsMapping(p) /\ k \in DOMAIN p.d

\* The rule table of the Distribution Validator, as the specification gives it.
RequiredArgs(kind) ==
    CASE kind = "uniform" -> <<"low", "high">>
      [] kind = "normal" -> <<"mean", "std">>
      [] kind = "choice" -> <<"values">>
      [] kind = "constant" -> <<"value">>

FourKinds == {"uniform", "normal", "choice", "constant"}
IsKind(v, kind) == v = Word(kind)
IsFourKind(v) == \E kind \in FourKinds : IsKind(v, kind)

\* The first required field that is missing, or present and malformed.
FieldBad(kind, args, field) ==
    \/ field \notin DOMAIN args
    \/ kind = "choice" /\ field = "values" /\ args[field].t # "list"
FirstBadField(kind, args) ==
    LET req == RequiredArgs(kind)
        bad == {i \in DOMAIN req : FieldBad(kind, args, req[i])}
    IN  IF bad = {} THEN "" ELSE req[CHOOSE i \in bad : \A j \in bad : i <= j]

IsUnknownDistributionError(r, distribution) ==
    /\ ~r.ok
    /\ r.exc = "ValueError"
    /\ r.msg = "unknown_distribution"
    /\ r.detail = <<distribution, <<"uniform", "normal", "choice", "constant">>>>

\* C2: every named item whose distribution is any value outside the four
\* kinds fails with the unknown-distribution error naming the kind and the
\* supported set.
C2_UnknownKindRejected ==
    (pc = "validated" /\ HasKey(param_dict, "name")
       /\ HasKey(param_dict, "distribution")
       /\ ~IsFourKind(param_dict.d["distribution"]))
    => IsUnknownDistributionError(validated, param_dict.d["distribution"])

\* C4: every item that is not a mapping fails with the error saying that the
\* item is not a mapping, and with no other error.
C4_NonMappingRejected ==
    (pc = "validated" /\ ~IsMapping(param_dict))
    => /\ ~validated.ok
       /\ validated.exc = "ValueError"
       /\ validated.msg = "not_a_mapping"

\* C11: an item that carries only a name and a distribution string that is
\* neither constant nor choice nor a name of the sampling backend (such as
\* not_a_real_distribution) is accepted at parse time, as a definition of
\* that name and kind with no arguments; the failure is left to sampling.
C11_UnknownKindAcceptedAtParse ==
    (pc = "validated" /\ HasKey(param_dict, "name")
       /\ DOMAIN param_dict.d = {"name", "distribution"}
       /\ IsKind(param_dict.d["distribution"], "not_a_real_distribution"))
    => /\ validated.ok
       /\ validated.value =
            ParameterDefinition(param_dict.d["name"],
                                param_dict.d["distribution"], <<>>)

IsNonEmptyString(v) == v.t = "str" /\ v.s # <<>>

\* C14: every definition that validation returns, and so every definition
\* of every space that parse returns, has a name that is a non-empty string:
\* an item whose name is empty, null, a number, a boolean or a list is never
\* accepted.
C14_NamesAreNonEmptyStrings ==
    (pc = "validated" /\ validated.ok)
    => /\ IsNonEmptyString(validated.value.name)
       /\ IsNonEmptyString(param_dict.d["name"])

(***************************************************************************)
(* Claims about _extract_yaml_from_docstring (checked under SpecExtract).  *)
(***************************************************************************)
TextOf(lines) == Join(lines)

\* A fence at i opens a block whose first line ends at the newline n: after
\* the fence comes nothing, or the tag yaml or yml, and then only white space.
OpensAt(t, i, n) ==
    /\ t[i] = FENCE /\ n > i /\ t[n] = NL
    /\ \/ \A m \in (i + 1)..(n - 1) : t[m] \in Whitespace
       \/ /\ i + 1 < n /\ t[i + 1] \in {"yaml", "yml"}
          /\ \A m \in (i + 2)..(n - 1) : t[m] \in Whitespace

\* The text holds an opening fence line and a later fence to close it.
HasFencedBlock(t) ==
    \E i \in {i \in DOMAIN t : t[i] = FENCE} :
        \E n \in {n \in (i + 1)..Len(t) : t[n] = NL} :
            OpensAt(t, i, n) /\ \E j \in (n + 1)..Len(t) : t[j] = FENCE

HasParametersLine(lines) ==
    \E i \in DOMAIN lines : \E k \in DOMAIN lines[i] : lines[i][k] = PARAMS

IsExtractionError(r, msg) == ~r.ok /\ r.exc = "ValueError" /\ r.msg = msg

FenceRank(t, i) == Cardinality({j \in 1..i : t[j] = FENCE})
IsOpener(t, i) == t[i] = FENCE /\ FenceRank(t, i) % 2 = 1
Closer(t, i) == Min(FencesFrom(t, i + 1))
\* Openers that are bare or tagged yaml/yml and have a closer.
YamlBlocks(t) ==
    {i \in DOMAIN t :
        /\ IsOpener(t, i)
        /\ FencesFrom(t, i + 1) # {}
        /\ \E n \in i..Closer(t, i) : OpensAt(t, i, n)}
BlockContent(t, i) ==
    LET from == IF t[i + 1] \in {"yaml", "yml"} THEN i + 2 ELSE i + 1
    IN  Strip(SubSeq(t, from, Closer(t, i) - 1))

\* C7: whenever the text holds a fenced block that is bare or tagged yaml or
\* yml and is closed, extraction returns the trimmed content of the first
\* such block and nothing else.
C7_FirstYamlBlock ==
    (pc = "extracted" /\ YamlBlocks(TextOf(docstring)) # {})
    => LET t == TextOf(docstring) IN
       extracted = Return(BlockContent(t, Min(YamlBlocks(t))))

\* The raw-text rule, as the specification gives it.
IsBlankLine(line) == \A k \in DOMAIN line : line[k] \in Whitespace
StopsRun(line) ==
    /\ ~IsBlankLine(line)
    /\ line[1] \notin {SP, TAB, DASH}
StartLine(lines) ==
    Min({i \in DOMAIN lines : \E k \in DOMAIN lines[i] : lines[i][k] = PARAMS})
StopLine(lines) ==
    Min({j \in DOMAIN lines : j > StartLine(lines) /\ StopsRun(lines[j])}
        \cup {Len(lines) + 1})
RawRun(lines) == SubSeq(lines, StartLine(lines), StopLine(lines) - 1)

\* C15: on a text without a fenced block that has a line holding the
\* parameters key, extraction returns the trimmed join of the run of whole
\* lines from the first such line up to, and not including, the first later
\* line that is not blank and starts with neither space, tab nor dash; the
\* result holds the parameters key.
C15_RawTextRun ==
    (pc = "extracted" /\ ~HasFencedBlock(TextOf(docstring))
       /\ HasParametersLine(docstring))
    => /\ extracted = Return(Strip(Join(RawRun(docstring))))
       /\ \E k \in DOMAIN extracted.value : extracted.value[k] = PARAMS

\* The key came after other text on the first line, a dash line followed,
\* the third line stopped the run, and the indented fourth line was left out.
C15_Witness ==
    /\ pc = "extracted" /\ Len(docstring) = 4
    /\ ~HasToken(TextOf(docstring), FENCE)
    /\ docstring[1] = <<"x", PARAMS>>
    /\ docstring[2] = <<DASH, "x">>
    /\ docstring[3] = <<"x">>
    /\ docstring[4] = <<SP, "x">>
    /\ extracted = Return(<<"x", PARAMS, NL, DASH, "x">>)

(***************************************************************************)
(* Claims about parse_parameter_space (checked under Spec).                *)
(***************************************************************************)
Loaded == pc = "parsed" /\ source # Idle /\ source.ok
Data == source.value
HasParametersList ==
    /\ Loaded /\ Data.t = "dict" /\ "parameters" \in DOMAIN Data.d
    /\ Data.d["parameters"].t = "list"
ItemsOf == Data.d["parameters"].l

IsError(r, msg) == ~r.ok /\ r.exc = "ValueError" /\ r.msg = msg
IsSchemaError(r) ==
    \E msg \in {"document_not_mapping", "missing_parameters_key", "parameters_not_list",
                "item_not_mapping", "missing_name", "missing_distribution"} :
        IsError(r, msg)

\* Documents whose items are all mappings with a string for a distribution.
PlainItems ==
    \A i \in DOMAIN ItemsOf :
        /\ IsMapping(ItemsOf[i])
        /\ HasKey(ItemsOf[i], "distribution") => ItemsOf[i].d["distribution"].t = "str"

\* C3 as stated: a document that is not a mapping, or has no parameters key,
\* or whose parameters are no sequence, or some item of which lacks name or
\* lacks distribution, fails with a SchemaError.
C3_SchemaErrorInEachCase ==
    Loaded =>
        IF ~HasParametersList THEN IsSchemaError(parsed)
        ELSE (PlainItems /\ \E i \in DOMAIN ItemsOf :
                  ~HasKey(ItemsOf[i], "name") \/ ~HasKey(ItemsOf[i], "distribution"))
             => IsSchemaError(parsed)

\* The first item in list order that does not pass validation, or 0.
FirstFailing(items) ==
    LET bad == {i \in DOMAIN items : ~_validate_parameter(items[i]).ok}
    IN  IF bad = {} THEN 0 ELSE Min(bad)

\* C3, amended: no space is returned in any of the five cases.  The three
\* document-level checks come in that order, before any item is examined.
\* Items fail in list order: when the first failing item is a mapping without
\* name the error is the missing-name SchemaError, and when it is a mapping
\* with name and without distribution it is the missing-distribution
\* SchemaError naming that item; an earlier failing item's error is reported
\* in place of a later item's.
C3_SchemaErrorOfFirstFailure ==
    Loaded =>
        IF Data.t # "dict" THEN IsError(parsed, "document_not_mapping")
        ELSE IF "parameters" \notin DOMAIN Data.d
        THEN IsError(parsed, "missing_parameters_key")
        ELSE IF Data.d["parameters"].t # "list"
        THEN IsError(parsed, "parameters_not_list")
        ELSE /\ (\E i \in DOMAIN ItemsOf :
                    ~HasKey(ItemsOf[i], "name") \/ ~HasKey(ItemsOf[i], "distribution"))
                => ~parsed.ok
             /\ LET f == FirstFailing(ItemsOf) IN
                (f # 0 /\ IsMapping(ItemsOf[f])) =>
                    /\ ~HasKey(ItemsOf[f], "name") => IsError(parsed, "missing_name")
                    /\ (HasKey(ItemsOf[f], "name") /\ ~HasKey(ItemsOf[f], "distribution"))
                       => /\ IsError(parsed, "missing_distribution")
                          /\ parsed.who = ItemsOf[f].d["name"]

\* After a valid first item, a second item with a name and no distribution
\* was refused with the error naming it.
C3_Witness ==
    /\ HasParametersList /\ Len(ItemsOf) = 2
    /\ _validate_parameter(ItemsOf[1]).ok
    /\ HasKey(ItemsOf[2], "name") /\ ~HasKey(ItemsOf[2], "distribution")
    /\ IsError(parsed, "missing_distribution")
    /\ parsed.who = ItemsOf[2].d["name"]

\* C5: a successful parse of n items returns n definitions, the i-th with
\* the i-th item's name and distribution and, as args, exactly the item's
\* other key/value pairs; iteration yields them in list order.
C5_DefinitionsMirrorItems ==
    (HasParametersList /\ parsed.ok) =>
        /\ Length(parsed.value) = Len(ItemsOf)
        /\ \A i \in DOMAIN ItemsOf :
              LET def == Iterate(parsed.value)[i]
                  item == ItemsOf[i]
              IN  /\ IsMapping(item)
                  /\ def.name = item.d["name"]
                  /\ def.distribution = item.d["distribution"]
                  /\ DOMAIN def.args = (DOMAIN item.d) \ {"name", "distribution"}
                  /\ \A k \in DOMAIN def.args : def.args[k] = item.d[k]

\* Two items with different names, one with a further key, were parsed.
C5_Witness ==
    /\ HasParametersList /\ parsed.ok /\ Len(ItemsOf) = 2
    /\ ItemsOf[1].d["name"] # ItemsOf[2].d["name"]
    /\ "extra" \in DOMAIN ItemsOf[2].d
    /\ "extra" \in DOMAIN Iterate(parsed.value)[2].args

\* C13: parsing is fail-fast.  When some item of the list does not validate,
\* parse returns an error and no space, and the error is the one of the
\* first such item in list order, whatever the later items are; when every
\* item validates a space is returned.
C13_FailFast ==
    HasParametersList =>
        LET f == FirstFailing(ItemsOf) IN
        /\ parsed.ok <=> f = 0
        /\ f # 0 => parsed = _validate_parameter(ItemsOf[f])

\* Two items failed for different reasons and the first one's was reported.
C13_Witness ==
    /\ HasParametersList /\ Len(ItemsOf) = 2
    /\ ~_validate_parameter(ItemsOf[1]).ok /\ ~_validate_parameter(ItemsOf[2]).ok
    /\ _validate_parameter(ItemsOf[1]) # _validate_parameter(ItemsOf[2])
    /\ parsed = _validate_parameter(ItemsOf[1])

\* A valid item came before an invalid one and nothing was returned.
C13_WitnessValidFirst ==
    /\ HasParametersList /\ Len(ItemsOf) = 2
    /\ _validate_parameter(ItemsOf[1]).ok /\ ~_validate_parameter(ItemsOf[2]).ok
    /\ ~parsed.ok

(***************************************************************************)
(* Claims about the sampling pass (checked under SpecSample).              *)
(***************************************************************************)
IsConstant(def) == def.distribution = Word("constant")

RECURSIVE PassValues(_, _)
\* The values a pass over defs draws, in order, from the source state r.
PassValues(defs, r) ==
    IF defs = <<>> THEN <<>>
    ELSE LET d == sample_one(Head(defs), r)
         IN  <<d.value>> \o PassValues(Tail(defs), d.rng)

RECURSIVE WithoutConstants(_)
WithoutConstants(defs) ==
    IF defs = <<>> THEN <<>>
    ELSE IF IsConstant(Head(defs)) THEN WithoutConstants(Tail(defs))
    ELSE <<Head(defs)>> \o WithoutConstants(Tail(defs))

RECURSIVE DrawnForOthers(_, _)
\* The values of this pass's samples that are not for constant definitions.
DrawnForOthers(defs, drawn) ==
    IF drawn = <<>> THEN <<>>
    ELSE IF IsConstant(Head(defs)) THEN DrawnForOthers(Tail(defs), Tail(drawn))
    ELSE <<Head(drawn).value>> \o DrawnForOthers(Tail(defs), Tail(drawn))

\* C9: a constant definition yields exactly its declared value and leaves
\* the random source as it was, so a finished pass drew for the other
\* definitions what a pass over the space without its constants draws from
\* the same seed.
C9_ConstantLeavesRng ==
    /\ \A i \in DOMAIN samples :
          IsConstant(Iterate(space)[i]) =>
              /\ samples[i].value = Iterate(space)[i].args["value"]
              /\ samples[i].after = samples[i].before
    /\ (pc = "sampled" /\ samples # <<>>) =>
          DrawnForOthers(Iterate(space), samples)
             = PassValues(WithoutConstants(Iterate(space)), samples[1].before)

\* A finished pass over a constant followed by a choice.
C9_Witness ==
    /\ pc = "sampled" /\ Length(space) >= 2
    /\ IsConstant(Iterate(space)[1])
    /\ Iterate(space)[2].distribution = Word("choice")
    /\ samples[1].value = IntVal(7)

NamesOf(sp) == {Iterate(sp)[i].name : i \in DOMAIN Iterate(sp)}
Positions(sp, name) == {i \in DOMAIN Iterate(sp) : Iterate(sp)[i].name = name}

\* C10: a successful pass visits the definitions in space order, one sample
\* each, and returns a mapping keyed by exactly the names of the space, a
\* repeated name holding the value of its last definition, while lookup of
\* the name gives its first definition.
C10_PassOrderAndKeys ==
    /\ Len(samples) = idx
    /\ \A i \in DOMAIN samples : samples[i].at = i
    /\ pc = "sampled" =>
          /\ Len(samples) = Length(space)
          /\ DOMAIN result = NamesOf(space)
          /\ \A name \in NamesOf(space) :
                /\ result[name] = samples[Max(Positions(space, name))].value
                /\ __getitem__(space, name)
                      = Return(Iterate(space)[Min(Positions(space, name))])

\* A finished pass over a space that has the same name twice, with values
\* that differ.
C10_Witness ==
    /\ pc = "sampled" /\ Length(space) = 3
    /\ Iterate(space)[1].name = Iterate(space)[3].name
    /\ Iterate(space)[1].name # Iterate(space)[2].name
    /\ samples[1].value # samples[3].value
    /\ result[Iterate(space)[1].name] = samples[3].value

(***************************************************************************)
(* Claims about ParameterSpace (checked under SpecSpace).                  *)
(***************************************************************************)
LookupAnswer(sp, key) ==
    IF Positions(sp, key) = {} THEN Raise("KeyError", "key", key, Nothing)
    ELSE Return(sp.parameters[Min(Positions(sp, key))])

\* C12: lookup of a name carried by some definition gives the first
\* definition in insertion order with that name; lookup of a name carried by
\* none fails with the not-found error for that name; and no lookup, length
\* or iteration changes the sequence of definitions.
C12_LookupLengthIteration ==
    /\ [](result.op = "getitem" => result.out = LookupAnswer(space, result.key))
    /\ [](result.op = "len" => result.out = Len(space.parameters))
    /\ [](result.op = "iter" => result.out = space.parameters)
    /\ [][space' = space]_vars

\* A lookup of a name that two definitions of different values carry gave
\* the earlier one, in a space that also has a definition of another name
\* in front of them.
C12_Witness ==
    /\ result.op = "getitem" /\ Len(space.parameters) = 3
    /\ space.parameters[1].name # result.key
    /\ space.parameters[2].name = result.key
    /\ space.parameters[3].name = result.key
    /\ space.parameters[2] # space.parameters[3]
    /\ result.out = Return(space.parameters[2])

\* A lookup of a name that no definition of a non-empty space carries failed.
C12_WitnessAbsent ==
    /\ result.op = "getitem" /\ Len(space.parameters) > 0
    /\ Positions(space, result.key) = {}
    /\ ~result.out.ok /\ result.out.exc = "KeyError"
    /\ result.out.who = result.key
====
